---- MODULE Spec2Model ----
(***************************************************************************)
(* A model of NSE_R2_PDF_Downloader.py: the spreadsheet reader, the        *)
(* filename derivation, the download-upload worker, the thread pool and    *)
(* the orchestrator main().                                                *)
(*                                                                         *)
(* Text is a sequence of one-character strings, so that strip, split,      *)
(* basename, splitext and startswith are computed character by character.  *)
(* A Content-Type value is a sequence of tokens whose media type is one    *)
(* token, because mimetypes.guess_extension is a table lookup on it.       *)
(***************************************************************************)
EXTENDS Integers, Sequences, FiniteSets, TLC

VARIABLES
    env,        \* the process environment: which of the three R2 credentials are set
    excel,      \* the spreadsheet object in the bucket: its state and column A of Sheet1
    mainpc,     \* main()'s position
    s3,         \* TRUE once s3_client_r2() has returned a client
    urls,       \* main()'s local `urls`
    submitted,  \* pool.submit calls made so far (futs is built in list order)
    task,       \* task[i]: the call download_and_upload(session, s3, BUCKET, urls[i])
    fut,        \* fut[i]: the Future of task i
    collected,  \* collected[i]: as_completed has yielded fut[i] to main()
    results,    \* main()'s local `results`
    logf,       \* the lines of the log file at LOG_PATH
    store,      \* the objects PUT into the bucket: a set of [key, body, ctype]
    rd,         \* one call of read_urls_from_r2_excel on its own
    fn          \* one call of pick_filename on its own

vars == <<env, excel, mainpc, s3, urls, submitted, task, fut, collected, results,
          logf, store, rd, fn>>

----------------------------------------------------------------------------
(* Bounds of the model *)

\* data rows (rows 2..MaxRows+1) of the sheets the reader is run on
MaxRows == 2

----------------------------------------------------------------------------
(* Text helpers: what the Python string and path functions compute *)

Max(S) == CHOOSE m \in S : \A k \in S : k <= m
Min(S) == CHOOSE m \in S : \A k \in S : m <= k

\* str.strip(chars)
StripChars(s, cs) ==
    LET keep == {k \in 1..Len(s) : s[k] \notin cs}
    IN  IF keep = {} THEN <<>> ELSE SubSeq(s, Min(keep), Max(keep))

WS == {" ", "\t"}

\* str.strip()
Strip(s) == StripChars(s, WS)

\* the start indices of pat in s
Occurrences(s, pat) ==
    {k \in 1..(Len(s) - Len(pat) + 1) : SubSeq(s, k, k + Len(pat) - 1) = pat}

\* pat in s
Contains(s, pat) == Occurrences(s, pat) # {}

\* s.split(pat)[-1]
SplitLast(s, pat) ==
    IF Occurrences(s, pat) = {} THEN s
    ELSE SubSeq(s, Max(Occurrences(s, pat)) + Len(pat), Len(s))

\* s.split(c)[0], c one character (or one token)
SplitFirst(s, c) ==
    LET at == {k \in 1..Len(s) : s[k] = c}
    IN  IF at = {} THEN s ELSE SubSeq(s, 1, Min(at) - 1)

\* s.startswith(p)
StartsWith(s, p) == Len(s) >= Len(p) /\ SubSeq(s, 1, Len(p)) = p

\* s.endswith(p)
EndsWith(s, p) == Len(s) >= Len(p) /\ SubSeq(s, Len(s) - Len(p) + 1, Len(s)) = p

\* str.rfind(c) + 1: the last index of c in s, 0 when there is none
RFind(s, c) ==
    LET at == {k \in 1..Len(s) : s[k] = c}
    IN  IF at = {} THEN 0 ELSE Max(at)

\* os.path.basename
basename(p) == SubSeq(p, RFind(p, "/") + 1, Len(p))

\* os.path.splitext(p)[1]: the text from the last dot of the last component,
\* empty when that component has no dot or only leading dots
splitext_ext(p) ==
    LET sep == RFind(p, "/")
        dot == RFind(p, ".")
    IN  IF dot > sep /\ \E k \in (sep + 1)..(dot - 1) : p[k] # "."
        THEN SubSeq(p, dot, Len(p))
        ELSE <<>>

DecimalDigit == <<"0", "1", "2", "3", "4", "5", "6", "7", "8", "9">>

\* str(n) for an int n >= 0
RECURSIVE IntToStr(_)
IntToStr(n) ==
    IF n < 10 THEN <<DecimalDigit[n + 1]>>
    ELSE IntToStr(n \div 10) \o <<DecimalDigit[(n % 10) + 1]>>

SchemeChars == {"h", "t", "p", "s"}

\* urlparse(url).path: the scheme and the //netloc are cut off the front, the
\* #fragment and the ?query off the end, then the ;params of the last segment
urlparse_path(url) ==
    LET colon == {k \in 2..Len(url) : url[k] = ":" /\ \A j \in 1..(k - 1) : url[j] \in SchemeChars}
        u1 == IF colon = {} THEN url ELSE SubSeq(url, Min(colon) + 1, Len(url))
        hasNet == StartsWith(u1, <<"/", "/">>)
        afterSl == SubSeq(u1, 3, Len(u1))
        ends == {k \in 1..Len(afterSl) : afterSl[k] \in {"/", "?", "#"}}
        u2 == IF ~hasNet THEN u1
              ELSE IF ends = {} THEN <<>>
              ELSE SubSeq(afterSl, Min(ends), Len(afterSl))
        u3 == SplitFirst(SplitFirst(u2, "#"), "?")
        semi == {k \in (RFind(u3, "/") + 1)..Len(u3) : u3[k] = ";"}
    IN  IF semi = {} THEN u3 ELSE SubSeq(u3, 1, Min(semi) - 1)

\* dict.get(name, default) on the response headers
HeaderGet(h, name, default) == IF name \in DOMAIN h THEN h[name] ELSE default

DOT_PDF == <<".", "p", "d", "f">>
DOT_HTML == <<".", "h", "t", "m", "l">>
DOT_BIN == <<".", "b", "i", "n">>

\* mimetypes.guess_extension(ctype); None is the empty text
guess_extension(ctype) ==
    IF ctype = <<"application/pdf">> THEN DOT_PDF
    ELSE IF ctype = <<"text/html">> THEN DOT_HTML
    ELSE IF ctype = <<"application/octet-stream">> THEN DOT_BIN
    ELSE <<>>

FILENAME_EQ == <<"f", "i", "l", "e", "n", "a", "m", "e", "=">>
DOWNLOAD_PDF == <<"d", "o", "w", "n", "l", "o", "a", "d", ".", "p", "d", "f">>

----------------------------------------------------------------------------
(* pick_filename *)

\* the name taken from Content-Disposition: "" when the header has no filename=
cd_name(cd) ==
    IF Contains(cd, FILENAME_EQ)
    THEN basename(StripChars(StripChars(Strip(SplitLast(cd, FILENAME_EQ)), {";"}), {"\""}))
    ELSE <<>>

\* name, with an extension appended when os.path.splitext finds none
ensure_ext(name, resp_headers) ==
    IF splitext_ext(name) = <<>>
    THEN LET ctype == Strip(SplitFirst(HeaderGet(resp_headers, "Content-Type", <<>>), ";"))
             ext == IF guess_extension(ctype) = <<>> THEN DOT_PDF ELSE guess_extension(ctype)
         IN  IF EndsWith(name, ext) THEN name ELSE name \o ext
    ELSE name

pick_filename(url, resp_headers) ==
    LET fromCd == cd_name(HeaderGet(resp_headers, "Content-Disposition", <<>>))
        fromUrl == IF basename(urlparse_path(url)) = <<>> THEN DOWNLOAD_PDF
                   ELSE basename(urlparse_path(url))
        name == IF fromCd = <<>> THEN fromUrl ELSE fromCd
    IN  ensure_ext(name, resp_headers)

----------------------------------------------------------------------------
(* read_urls_from_r2_excel *)

\* a cell value: None, a str, an int or a bool
NoneCell == [t |-> "none", s |-> <<>>, n |-> 0, b |-> FALSE]
StrCell(s) == [t |-> "str", s |-> s, n |-> 0, b |-> FALSE]
IntCell(n) == [t |-> "int", s |-> <<>>, n |-> n, b |-> FALSE]
BoolCell(b) == [t |-> "bool", s |-> <<>>, n |-> 0, b |-> b]

\* bool(val)
Truthy(c) ==
    CASE c.t = "none" -> FALSE
      [] c.t = "str" -> c.s # <<>>
      [] c.t = "int" -> c.n # 0
      [] c.t = "bool" -> c.b

\* str(val)
Str(c) ==
    CASE c.t = "none" -> <<"N", "o", "n", "e">>
      [] c.t = "str" -> c.s
      [] c.t = "int" -> IntToStr(c.n)
      [] c.t = "bool" -> IF c.b THEN <<"T", "r", "u", "e">> ELSE <<"F", "a", "l", "s", "e">>

\* `if val and str(val).strip()`
cell_kept(c) == Truthy(c) /\ Strip(Str(c)) # <<>>

\* the loop over rows 2..max_row of column A; sheet[r] is the value of A<r>
RECURSIVE collect_urls(_, _)
collect_urls(sheet, row) ==
    IF row > Len(sheet) THEN <<>>
    ELSE (IF cell_kept(sheet[row]) THEN <<Strip(Str(sheet[row]))>> ELSE <<>>)
         \o collect_urls(sheet, row + 1)

read_urls_from_r2_excel(sheet) == collect_urls(sheet, 2)

----------------------------------------------------------------------------
(* Inputs: URLs, response headers, cells *)

HTTP == <<"h", "t", "t", "p", ":", "/", "/">>
\* http://x/f/doc
URL_DOC == HTTP \o <<"x", "/", "f", "/", "d", "o", "c">>
\* http://y/a.pdf
URL_A_PDF == HTTP \o <<"y", "/", "a", ".", "p", "d", "f">>
\* http://z/g/doc : another document with the same last path segment as URL_DOC
URL_DOC2 == HTTP \o <<"z", "/", "g", "/", "d", "o", "c">>
\* http://x/
URL_SLASH == HTTP \o <<"x", "/">>
\* http://x
URL_HOST == HTTP \o <<"x">>
\* http://x/.pdf
URL_DOTFILE == HTTP \o <<"x", "/">> \o DOT_PDF
\* http://x/d?q=/b.c
URL_QUERY == HTTP \o <<"x", "/", "d", "?", "q", "=", "/", "b", ".", "c">>
\* http://x/d;v=1.2
URL_PARAMS == HTTP \o <<"x", "/", "d", ";", "v", "=", "1", ".", "2">>

QUOTE == <<"\"">>
ATTACHMENT == <<"a", "t", "t", "a", "c", "h", "m", "e", "n", "t", ";", " ">>
R_PDF == <<"r", ".", "p", "d", "f">>
\* filename="r.pdf"
CD_QUOTED == FILENAME_EQ \o QUOTE \o R_PDF \o QUOTE
\* attachment; filename=r.pdf
CD_BARE == ATTACHMENT \o FILENAME_EQ \o R_PDF
\* attachment; filename="r.pdf"; size=1
CD_SIZE == ATTACHMENT \o CD_QUOTED \o <<";", " ", "s", "i", "z", "e", "=", "1">>
\* attachment; filename="r"
CD_NOEXT == ATTACHMENT \o FILENAME_EQ \o QUOTE \o <<"r">> \o QUOTE
\* attachment; filename="d/r.pdf"
CD_PATH == ATTACHMENT \o FILENAME_EQ \o QUOTE \o <<"d", "/">> \o R_PDF \o QUOTE
\* attachment; filename=""
CD_EMPTY == ATTACHMENT \o FILENAME_EQ \o QUOTE \o QUOTE
\* inline
CD_INLINE == <<"i", "n", "l", "i", "n", "e">>

CT_PDF == <<"application/pdf">>
CT_PDF_CHARSET == <<"application/pdf", ";", " ", "charset=utf-8">>
CT_HTML == <<"text/html">>
CT_UNKNOWN == <<"application/x-unknown">>

\* the response headers with the given Content-Disposition and Content-Type
\* values; a value of "absent" leaves the header out
Headers(cd, ct) ==
    [h \in {n \in {"Content-Disposition"} : cd # <<"absent">>}
           \cup {n \in {"Content-Type"} : ct # <<"absent">>}
       |-> IF h = "Content-Disposition" THEN cd ELSE ct]

FnUrls == {URL_DOC, URL_A_PDF, URL_DOC2, URL_SLASH, URL_HOST, URL_DOTFILE, URL_QUERY, URL_PARAMS}
FnCDs == {<<"absent">>, <<>>, CD_QUOTED, CD_BARE, CD_SIZE, CD_NOEXT, CD_PATH, CD_EMPTY, CD_INLINE}
FnCTs == {<<"absent">>, <<>>, CT_PDF, CT_PDF_CHARSET, CT_HTML, CT_UNKNOWN}

HEADER_CELL == StrCell(<<"U", "R", "L">>)
RdCells ==
    {NoneCell, StrCell(<<>>), StrCell(<<" ", " ">>), StrCell(<<"a">>), StrCell(<<" ", "a", "b", " ">>),
     IntCell(0), IntCell(42), BoolCell(FALSE), BoolCell(TRUE)}

\* the sequences over S of length 0..n
RECURSIVE SeqsUpTo(_, _)
SeqsUpTo(S, n) ==
    IF n = 0 THEN {<<>>}
    ELSE SeqsUpTo(S, n - 1) \cup {Append(q, x) : q \in {r \in SeqsUpTo(S, n - 1) : Len(r) = n - 1}, x \in S}

\* column A of a sheet: the header row and up to MaxRows data rows
RdSheets == {<<HEADER_CELL>> \o q : q \in SeqsUpTo(RdCells, MaxRows)}

----------------------------------------------------------------------------
(* Configuration and messages *)

CredNames == {"R2_ACCOUNT_ID", "R2_ACCESS_KEY_ID", "R2_SECRET_ACCESS_KEY"}
BUCKET == <<"lihan">>
UPLOAD_PREF == <<"Desktop/All pdfs download/">>
\* MAX_WORKERS is read from the environment; the model runs with MAX_WORKERS=2
MAX_WORKERS == 2
\* Retry(total=3, status_forcelist=[...], allowed_methods=["GET", "HEAD"])
RETRY_TOTAL == 3
STATUS_FORCELIST == {429, 500, 502, 503, 504}

ARROW == <<" ", "-", ">", " ">>
OK_TAG == <<"O", "K">>
FAIL_TAG == <<"F", "A", "I", "L">>

\* f"OK   {url} -> r2://{bucket}/{key}"
ok_msg(url, bucket, key) ==
    OK_TAG \o <<" ", " ", " ">> \o url \o ARROW \o <<"r2://">> \o bucket \o <<"/">> \o key

\* f"FAIL {url} -> HTTP {r.status_code}"
fail_http_msg(url, status) ==
    FAIL_TAG \o <<" ">> \o url \o ARROW \o <<"H", "T", "T", "P", " ">> \o IntToStr(status)

\* f"FAIL {url} -> {e}"
fail_exc_msg(url, e) == FAIL_TAG \o <<" ">> \o url \o ARROW \o <<e>>

\* f"Done. Success: {ok}, Failed: {fail}"
tally_line(ok, fail) ==
    <<"Done. Success: ">> \o IntToStr(ok) \o <<", Failed: ">> \o IntToStr(fail)

\* str.rstrip()
RStrip(s) ==
    LET keep == {k \in 1..Len(s) : s[k] \notin WS}
    IN  IF keep = {} THEN <<>> ELSE SubSeq(s, 1, Max(keep))

\* log(msg): one line appended to the file
log(file, msg) == Append(file, RStrip(msg))

\* all([ACCOUNT_ID, ACCESS_KEY, SECRET_KEY])
MutAnyCredential(e) == \E n \in CredNames : e[n]
creds_present(e) == \A n \in CredNames : e[n]

\* sum(x.startswith("OK") for x in results)
MutCountAll(res) == Len(res)
count_ok(res) == Cardinality({k \in 1..Len(res) : StartsWith(res[k], OK_TAG)})

----------------------------------------------------------------------------
(* The spreadsheets main() is run on *)

SHEET_HEADER_ONLY == <<HEADER_CELL>>
SHEET_BLANKS == <<HEADER_CELL, NoneCell, StrCell(<<" ">>)>>
\* two URLs and a blank row between them
SHEET_TWO == <<HEADER_CELL, StrCell(URL_DOC), NoneCell, StrCell(URL_A_PDF)>>
\* the same URL twice, once padded with blanks
SHEET_DUPLICATE == <<HEADER_CELL, StrCell(URL_A_PDF), StrCell(<<" ">> \o URL_A_PDF \o <<" ">>)>>
\* two different URLs ending in the same path segment
SHEET_SAME_NAME == <<HEADER_CELL, StrCell(URL_DOC), StrCell(URL_DOC2)>>
SHEET_THREE == <<HEADER_CELL, StrCell(URL_DOC), StrCell(URL_A_PDF), StrCell(URL_DOC2)>>

Sheets == {SHEET_HEADER_ONLY, SHEET_BLANKS, SHEET_TWO, SHEET_DUPLICATE, SHEET_SAME_NAME, SHEET_THREE}

ExcelObjects ==
    {[state |-> "missing", colA |-> <<>>], [state |-> "corrupt", colA |-> <<>>]}
    \cup {[state |-> "ok", colA |-> sh] : sh \in Sheets}

\* what one HTTP request of session.get meets on the wire
WireOutcomes ==
    {[kind |-> "error", status |-> 0]}
    \cup {[kind |-> "response", status |-> st] : st \in {200, 404, 500}}

\* the headers a 200 response carries
ServerHeaders == {Headers(<<"absent">>, CT_PDF), Headers(CD_QUOTED, <<"absent">>)}

TaskIds == 1..Max({Len(read_urls_from_r2_excel(sh)) : sh \in Sheets})

----------------------------------------------------------------------------
(* State *)

NoResponse == [status |-> 0, headers |-> Headers(<<"absent">>, <<"absent">>)]

\* a task before pool.submit.  retries is the budget of the Retry object of a
\* running session.get call (0 outside the call); requested: the call has put
\* an HTTP GET on the wire; probe: what the latest is_connected() met;
\* probeErr: an OSError was raised inside one of the is_connected() calls;
\* puts: upload_fileobj calls made; thrown: the exception raised inside the try
NewTask ==
    [pc |-> "new", retries |-> 0, requested |-> FALSE, resp |-> NoResponse,
     probe |-> "none", probeErr |-> FALSE, puts |-> 0, thrown |-> ""]

\* the states of a Future: none (not created), pending, returned, raised
NoFuture == [state |-> "none", msg |-> <<>>]
PendingFuture == [state |-> "pending", msg |-> <<>>]

\* download_and_upload returns msg
returned(msg) == [state |-> "returned", msg |-> msg]

\* an exception leaves download_and_upload
propagated(e) == [state |-> "raised", msg |-> <<e>>]

\* `except Exception as e: return f"FAIL {url} -> {e}"` around the GET, the
\* filename derivation and the upload
MutNoExcept(url, e) == propagated(e)
except_handler(url, e) == returned(fail_exc_msg(url, e))

RdIdle == [pc |-> "off", sheet |-> <<>>, out |-> <<>>]
FnIdle == [pc |-> "off", url |-> <<>>, headers |-> NoResponse.headers, name |-> <<>>]

MainInit(pc) ==
    /\ mainpc = pc
    /\ s3 = FALSE
    /\ urls = <<>>
    /\ submitted = 0
    /\ task = <<>>
    /\ fut = <<>>
    /\ collected = <<>>
    /\ results = <<>>
    /\ logf = <<>>
    /\ store = {}

Init ==
    /\ env \in [CredNames -> BOOLEAN]
    /\ excel \in ExcelObjects
    /\ MainInit("start")
    /\ rd = RdIdle
    /\ fn = FnIdle

----------------------------------------------------------------------------
(* main(), up to the pool *)

\* the four log lines that open main()
MainBanner ==
    /\ mainpc = "start"
    /\ logf' = log(log(log(log(logf, <<"Starting NSE R2 PDF Downloader">>),
                           <<"Bucket: ">> \o BUCKET),
                       <<"Excel key: ", "Desktop/Excel file/Symbols.xlsx">>),
                   <<"Upload prefix: ">> \o UPLOAD_PREF)
    /\ mainpc' = "client"
    /\ UNCHANGED <<env, excel, s3, urls, submitted, task, fut, collected, results, store, rd, fn>>

\* s3 = s3_client_r2(): RuntimeError when a credential is missing
MainClient ==
    /\ mainpc = "client"
    /\ IF creds_present(env)
       THEN s3' = TRUE /\ mainpc' = "read"
       ELSE s3' = FALSE /\ mainpc' = "raised"
    /\ UNCHANGED <<env, excel, urls, submitted, task, fut, collected, results, logf, store, rd, fn>>

\* the try around read_urls_from_r2_excel, and `if not urls`
MainRead ==
    /\ mainpc = "read"
    /\ LET l1 == log(logf, <<"Reading Excel from R2 ...">>)
           got == read_urls_from_r2_excel(excel.colA)
       IN  IF excel.state # "ok"
           THEN /\ logf' = log(l1, <<"ERROR reading Excel: ", excel.state>>)
                /\ mainpc' = "raised"
                /\ UNCHANGED <<urls, task, fut, collected>>
           ELSE IF got = <<>>
           THEN /\ logf' = log(l1, <<"No URLs found in Excel. Exiting.">>)
                /\ mainpc' = "returned"
                /\ urls' = got
                /\ UNCHANGED <<task, fut, collected>>
           ELSE /\ logf' = log(l1, <<"Found ">> \o IntToStr(Len(got)) \o <<" URLs. Starting downloads ...">>)
                /\ mainpc' = "submit"
                /\ urls' = got
                /\ task' = [i \in 1..Len(got) |-> NewTask]
                /\ fut' = [i \in 1..Len(got) |-> NoFuture]
                /\ collected' = [i \in 1..Len(got) |-> FALSE]
    /\ UNCHANGED <<env, excel, s3, submitted, results, store, rd, fn>>

\* pool.submit(download_and_upload, session, s3, BUCKET, url), in list order
Submit ==
    /\ mainpc = "submit"
    /\ submitted < Len(urls)
    /\ submitted' = submitted + 1
    /\ task' = [task EXCEPT ![submitted + 1].pc = "queued"]
    /\ fut' = [fut EXCEPT ![submitted + 1] = PendingFuture]
    /\ mainpc' = IF submitted + 1 = Len(urls) THEN "collect" ELSE "submit"
    /\ UNCHANGED <<env, excel, s3, urls, collected, results, logf, store, rd, fn>>

----------------------------------------------------------------------------
(* The pool and download_and_upload *)

\* tasks a pool worker has started and that have not returned
InFlight == {i \in DOMAIN task : task[i].pc \in {"probe", "sleep", "get", "upload"}}

\* ThreadPoolExecutor(max_workers=MAX_WORKERS): a worker thread is free
MutUnboundedPool(n) == TRUE
pool_has_idle_worker(n) == n < MAX_WORKERS

\* a free worker takes the oldest queued work item and calls download_and_upload
WorkerStart(i) ==
    /\ i \in DOMAIN task
    /\ task[i].pc = "queued"
    /\ \A j \in 1..(i - 1) : task[j].pc # "queued"
    /\ pool_has_idle_worker(Cardinality(InFlight))
    /\ task' = [task EXCEPT ![i].pc = "probe"]
    /\ UNCHANGED <<env, excel, mainpc, s3, urls, submitted, fut, collected, results, logf, store, rd, fn>>

\* is_connected(): True when the connect succeeds, False on OSError
MutAlwaysConnected(outcome) == TRUE
MutNeverConnected(outcome) == FALSE
is_connected(outcome) == outcome = "connected"

\* one evaluation of `while not is_connected()`; leaving the loop enters
\* session.get, which starts with the whole Retry budget
Probe(i) ==
    /\ i \in DOMAIN task
    /\ task[i].pc = "probe"
    /\ \E outcome \in {"connected", "oserror"} :
         task' = [task EXCEPT ![i].probe = outcome,
                              ![i].probeErr = @ \/ outcome = "oserror",
                              ![i].pc = IF is_connected(outcome) THEN "get" ELSE "sleep",
                              ![i].retries = IF is_connected(outcome) THEN RETRY_TOTAL ELSE 0]
    /\ UNCHANGED <<env, excel, mainpc, s3, urls, submitted, fut, collected, results, logf, store, rd, fn>>

\* time.sleep(5), then back to the loop condition
Sleep(i) ==
    /\ i \in DOMAIN task
    /\ task[i].pc = "sleep"
    /\ task' = [task EXCEPT ![i].pc = "probe"]
    /\ UNCHANGED <<env, excel, mainpc, s3, urls, submitted, fut, collected, results, logf, store, rd, fn>>

\* Retry.increment: one retry of the budget is used
retries_after(r) == r - 1

\* `if r.status_code != 200` is not taken
MutOkBelow500(status) == status < 500
status_ok(status) == status = 200

\* session.get(url, stream=True, ...): one request on the wire.  A connection
\* error or a status of the forcelist is retried while the Retry budget lasts
\* and raises when it is used up; any other response is returned.
Get(i) ==
    /\ i \in DOMAIN task
    /\ task[i].pc = "get"
    /\ \E o \in WireOutcomes, h \in ServerHeaders :
         LET t == [task[i] EXCEPT !.requested = TRUE]
             retriable == o.kind = "error" \/ o.status \in STATUS_FORCELIST
             e == IF o.kind = "error" THEN "ConnectionError" ELSE "RetryError: too many error responses"
             r == [status |-> o.status, headers |-> IF o.status = 200 THEN h ELSE NoResponse.headers]
         IN  IF retriable /\ t.retries > 0
             THEN /\ task' = [task EXCEPT ![i] = [t EXCEPT !.retries = retries_after(@)]]
                  /\ UNCHANGED fut
             ELSE IF retriable
             THEN /\ task' = [task EXCEPT ![i] = [t EXCEPT !.pc = "done", !.retries = 0, !.thrown = e]]
                  /\ fut' = [fut EXCEPT ![i] = except_handler(urls[i], e)]
             ELSE IF status_ok(o.status)
             THEN /\ task' = [task EXCEPT ![i] = [t EXCEPT !.pc = "upload", !.retries = 0, !.resp = r]]
                  /\ UNCHANGED fut
             ELSE /\ task' = [task EXCEPT ![i] = [t EXCEPT !.pc = "done", !.retries = 0, !.resp = r]]
                  /\ fut' = [fut EXCEPT ![i] = returned(fail_http_msg(urls[i], o.status))]
    /\ UNCHANGED <<env, excel, mainpc, s3, urls, submitted, collected, results, logf, store, rd, fn>>

\* key = f"{UPLOAD_PREF}{filename}" with filename = pick_filename(url, r.headers)
dest_key(url, headers) == UPLOAD_PREF \o pick_filename(url, headers)

\* the object s3.upload_fileobj leaves under Key: the body of the response,
\* tagged with r.headers.get("Content-Type", "application/pdf")
put_object(objects, key, body, headers) ==
    {o \in objects : o.key # key}
    \cup {[key |-> key, body |-> body, ctype |-> HeaderGet(headers, "Content-Type", CT_PDF)]}

\* s3.upload_fileobj(Fileobj=r.raw, ...) and the return that follows it; the
\* body a URL serves is named by the URL
Upload(i) ==
    /\ i \in DOMAIN task
    /\ task[i].pc = "upload"
    /\ \E ok \in BOOLEAN :
         LET key == dest_key(urls[i], task[i].resp.headers)
         IN  IF ok
             THEN /\ store' = put_object(store, key, urls[i], task[i].resp.headers)
                  /\ task' = [task EXCEPT ![i].pc = "done", ![i].puts = @ + 1]
                  /\ fut' = [fut EXCEPT ![i] = returned(ok_msg(urls[i], BUCKET, key))]
             ELSE /\ store' = store
                  /\ task' = [task EXCEPT ![i].pc = "done", ![i].puts = @ + 1,
                                          ![i].thrown = "S3UploadFailedError"]
                  /\ fut' = [fut EXCEPT ![i] = except_handler(urls[i], "S3UploadFailedError")]
    /\ UNCHANGED <<env, excel, mainpc, s3, urls, submitted, collected, results, logf, rd, fn>>

----------------------------------------------------------------------------
(* main(): the as_completed loop, the end of the with block, the tally *)

\* one iteration of `for fut in as_completed(futs)`: fut.result() returns the
\* task's message or raises what the task raised
Collect(i) ==
    /\ mainpc = "collect"
    /\ i \in DOMAIN fut
    /\ fut[i].state \in {"returned", "raised"}
    /\ ~collected[i]
    /\ collected' = [collected EXCEPT ![i] = TRUE]
    /\ IF fut[i].state = "raised"
       THEN mainpc' = "unwind" /\ UNCHANGED <<results, logf>>
       ELSE /\ results' = Append(results, fut[i].msg)
            /\ logf' = log(logf, fut[i].msg)
            /\ mainpc' = mainpc
    /\ UNCHANGED <<env, excel, s3, urls, submitted, task, fut, store, rd, fn>>

\* the with block ends, after the loop or on an exception: shutdown(wait=True)
\* returns when every submitted task has finished
ExitPool ==
    /\ \/ mainpc = "collect" /\ \A i \in DOMAIN collected : collected[i]
       \/ mainpc = "unwind"
    /\ \A i \in DOMAIN task : task[i].pc = "done"
    /\ mainpc' = IF mainpc = "unwind" THEN "raised" ELSE "tally"
    /\ UNCHANGED <<env, excel, s3, urls, submitted, task, fut, collected, results, logf, store, rd, fn>>

\* ok, fail and the last two log lines
Tally ==
    /\ mainpc = "tally"
    /\ LET ok == count_ok(results)
           fail == Len(results) - ok
       IN  logf' = log(log(logf, tally_line(ok, fail)), <<"Log saved: ", "output/log.txt">>)
    /\ mainpc' = "returned"
    /\ UNCHANGED <<env, excel, s3, urls, submitted, task, fut, collected, results, store, rd, fn>>

Next ==
    \/ MainBanner
    \/ MainClient
    \/ MainRead
    \/ Submit
    \/ \E i \in TaskIds : WorkerStart(i)
    \/ \E i \in TaskIds : Probe(i)
    \/ \E i \in TaskIds : Sleep(i)
    \/ \E i \in TaskIds : Get(i)
    \/ \E i \in TaskIds : Upload(i)
    \/ \E i \in TaskIds : Collect(i)
    \/ ExitPool
    \/ Tally

Spec == Init /\ [][Next]_vars

\* the pool's threads are scheduled fairly, the main thread runs on, every
\* network call returns or raises, and the connectivity probe, tried again
\* and again, succeeds in the end
FairSpec ==
    /\ Spec
    /\ WF_vars(MainBanner \/ MainClient \/ MainRead \/ Submit \/ ExitPool \/ Tally)
    /\ \A i \in TaskIds :
         /\ WF_vars(WorkerStart(i) \/ Probe(i) \/ Sleep(i) \/ Get(i) \/ Upload(i) \/ Collect(i))
         /\ SF_vars(Probe(i) /\ task'[i].pc = "get")

----------------------------------------------------------------------------
(* read_urls_from_r2_excel and pick_filename on their own, over every input *)

Off ==
    /\ env = [n \in CredNames |-> FALSE]
    /\ excel = [state |-> "missing", colA |-> <<>>]
    /\ MainInit("off")

InitReader ==
    /\ Off
    /\ rd \in {[pc |-> "call", sheet |-> sh, out |-> <<>>] : sh \in RdSheets}
    /\ fn = FnIdle

ReadCall ==
    /\ rd.pc = "call"
    /\ rd' = [rd EXCEPT !.pc = "ret", !.out = read_urls_from_r2_excel(rd.sheet)]
    /\ UNCHANGED <<env, excel, mainpc, s3, urls, submitted, task, fut, collected, results,
                   logf, store, fn>>

SpecReader == InitReader /\ [][ReadCall]_vars

InitName ==
    /\ Off
    /\ rd = RdIdle
    /\ fn \in {[pc |-> "call", url |-> u, headers |-> Headers(cd, ct), name |-> <<>>] :
                 u \in FnUrls, cd \in FnCDs, ct \in FnCTs}

PickCall ==
    /\ fn.pc = "call"
    /\ fn' = [fn EXCEPT !.pc = "ret", !.name = pick_filename(fn.url, fn.headers)]
    /\ UNCHANGED <<env, excel, mainpc, s3, urls, submitted, task, fut, collected, results,
                   logf, store, rd>>

SpecName == InitName /\ [][PickCall]_vars

----------------------------------------------------------------------------
(* Properties *)

\* what the properties say of a run, in their own words
AllCredentials ==
    env["R2_ACCOUNT_ID"] /\ env["R2_ACCESS_KEY_ID"] /\ env["R2_SECRET_ACCESS_KEY"]
IsOutcomeLine(line) == StartsWith(line, OK_TAG) \/ StartsWith(line, FAIL_TAG)
IsTallyLine(line) == StartsWith(line, <<"Done. Success: ">>)
OutcomeLines == {k \in 1..Len(logf) : IsOutcomeLine(logf[k])}
TallyLines == {k \in 1..Len(logf) : IsTallyLine(logf[k])}
FailPrefix(url) == <<"F", "A", "I", "L", " ">> \o url \o <<" ", "-", ">", " ">>
OkPrefix(url) == <<"O", "K", " ", " ", " ">> \o url \o <<" ", "-", ">", " ", "r2://">>
\* the GET of task i returned 200 and its upload completed
Succeeded(i) == task[i].resp.status = 200 /\ task[i].puts = 1 /\ task[i].thrown = ""
Finished(i) == task[i].pc = "done"

\* C1: when main() has run over N >= 1 URLs, the log holds exactly N outcome
\* lines, one for each URL (the message its task returned), and one tally line,
\* which reports Success = the number of URLs whose GET returned 200 and whose
\* upload completed, and Failed = N minus that.
C1_OneOutcomePerUrlAndTally ==
    (mainpc = "returned" /\ urls # <<>>) =>
        LET N == Len(urls)
            succ == Cardinality({i \in 1..N : Succeeded(i)})
        IN  /\ Cardinality(OutcomeLines) = N
            /\ \A i \in 1..N :
                 /\ StartsWith(fut[i].msg, IF Succeeded(i) THEN OkPrefix(urls[i]) ELSE FailPrefix(urls[i]))
                 /\ Cardinality({k \in 1..Len(logf) : logf[k] = fut[i].msg})
                      = Cardinality({j \in 1..N : fut[j].msg = fut[i].msg})
            /\ Cardinality(TallyLines) = 1
            /\ \A k \in TallyLines :
                 logf[k] = <<"Done. Success: ">> \o IntToStr(succ) \o <<", Failed: ">> \o IntToStr(N - succ)

\* a finished run over two URLs, one stored and one that met 500 until the retries ran out
C1_Witness ==
    /\ mainpc = "returned"
    /\ Len(urls) = 2
    /\ \E i, j \in 1..2 : Succeeded(i) /\ task[j].thrown = "RetryError: too many error responses"

\* C2: at most MAX_WORKERS download_and_upload calls are in flight (started
\* and not yet returned) in every reachable state, also with more URLs than workers.
C2_AtMostWInFlight == Cardinality(InFlight) <= MAX_WORKERS

\* every worker is busy while a task is still queued
C2_Witness ==
    /\ Cardinality(InFlight) = MAX_WORKERS
    /\ Len(urls) > MAX_WORKERS
    /\ \E i \in DOMAIN task : task[i].pc = "queued"

C3_Returned(i) ==
    /\ Finished(i)
    /\ fut[i].state = "returned"
    /\ fut[i].msg = FailPrefix(urls[i]) \o <<"H", "T", "T", "P", " ">> \o IntToStr(task[i].resp.status)
    /\ task[i].puts = 0
    /\ \A o \in store : o.body = urls[i] => \E j \in DOMAIN task : j # i /\ urls[j] = urls[i]
C3_OthersUntouched(i) ==
    (task[i].resp.status = 0 /\ task'[i].resp.status \notin {0, 200}) =>
        /\ \A j \in DOMAIN task : j # i => task'[j] = task[j] /\ fut'[j] = fut[j]
        /\ store' = store
        /\ mainpc' = mainpc

\* C3: a task whose GET returned a status other than 200 has returned
\* "FAIL <url> -> HTTP <status>", has made no PUT and has not raised; the step
\* that returns it leaves every other task, its Future and the store as they were.
C3_Non200IsAFailureOutcome ==
    /\ [](\A i \in DOMAIN task : task[i].resp.status \notin {0, 200} => C3_Returned(i))
    /\ [][\A i \in DOMAIN task : C3_OthersUntouched(i)]_vars

\* a task has met 404 while another one is between its GET and its upload
C3_Witness ==
    \E i, j \in DOMAIN task : task[i].resp.status = 404 /\ task[j].pc = "upload"

\* C4 as stated: whatever step of the task raised an exception, the
\* connectivity wait included, the task has returned a FAIL outcome.
C4_EveryExceptionBecomesAFailure ==
    \A i \in DOMAIN task :
        (Finished(i) /\ (task[i].probeErr \/ task[i].thrown # "")) =>
            fut[i].state = "returned" /\ StartsWith(fut[i].msg, FailPrefix(urls[i]))

\* C4, amended: an exception raised inside the try block (the GET, the filename
\* derivation, the upload) ends the task with the returned outcome
\* "FAIL <url> -> <reason>"; an OSError of the connectivity probe is caught in
\* is_connected and leaves the task waiting with no outcome; no Future ever
\* holds an exception, so fut.result() does not raise in main().
C4_TryBlockExceptionsBecomeFailures ==
    \A i \in DOMAIN task :
        /\ task[i].thrown # "" =>
             Finished(i) /\ fut[i].state = "returned" /\ fut[i].msg = FailPrefix(urls[i]) \o <<task[i].thrown>>
        /\ task[i].probe = "oserror" => task[i].pc \in {"sleep", "probe"} /\ fut[i].state = "pending"
        /\ fut[i].state # "raised"
        /\ mainpc # "unwind"
        /\ mainpc = "raised" => submitted = 0

\* an upload has raised in a task that had also met a failed probe, while another task runs
C4_Witness ==
    \E i, j \in DOMAIN task :
        /\ task[i].thrown = "S3UploadFailedError"
        /\ task[i].probeErr
        /\ j \in InFlight

WorkStarted ==
    \/ submitted > 0
    \/ store # {}
    \/ \E i \in DOMAIN task : task[i].pc # "new" \/ task[i].requested \/ task[i].puts > 0

\* C5: no task is submitted, no GET issued and no object PUT unless the client
\* was built with all three credentials, the spreadsheet was read and the URL
\* list is not empty; main() raises on a missing credential or an unreadable
\* spreadsheet and returns normally on an empty list.
C5_NoWorkBeforeInputsAreGood ==
    /\ WorkStarted => s3 /\ AllCredentials /\ excel.state = "ok" /\ urls # <<>>
    /\ s3 => AllCredentials
    /\ (~AllCredentials /\ mainpc \notin {"start", "client"}) => mainpc = "raised"
    /\ (AllCredentials /\ excel.state # "ok" /\ mainpc \notin {"start", "client", "read"}) =>
           mainpc = "raised"
    /\ (AllCredentials /\ excel.state = "ok" /\ urls = <<>> /\ mainpc \notin {"start", "client", "read"}) =>
           mainpc = "returned" /\ logf[Len(logf)] = <<"No URLs found in Excel. Exiting.">>

\* an object has been stored
C5_Witness == \E i \in DOMAIN task : task[i].puts > 0 /\ store # {}

\* a cell is non-empty when it holds a value whose text, trimmed, is not empty
C6_NonEmpty(c) == c.t # "none" /\ Strip(Str(c)) # <<>>
RECURSIVE C6_TrimmedTexts(_, _)
C6_TrimmedTexts(sheet, row) ==
    IF row > Len(sheet) THEN <<>>
    ELSE (IF C6_NonEmpty(sheet[row]) THEN <<Strip(Str(sheet[row]))>> ELSE <<>>)
         \o C6_TrimmedTexts(sheet, row + 1)

\* C6: the reader returns, in row order, the trimmed text of every non-empty
\* cell of rows 2.. of column A, whatever the type of the cell's value, and
\* nothing else.
C6_ReaderReturnsEveryNonEmptyCell ==
    rd.pc = "ret" => rd.out = C6_TrimmedTexts(rd.sheet, 2)

\* the filename parameter of a Content-Disposition value: the text after
\* filename= up to the next ";", without blanks, quotes and directories
C7_HeaderFilename(cd) ==
    IF Contains(cd, FILENAME_EQ)
    THEN LET value == SubSeq(cd, Min(Occurrences(cd, FILENAME_EQ)) + Len(FILENAME_EQ), Len(cd))
         IN  basename(StripChars(Strip(SplitFirst(value, ";")), {"\""}))
    ELSE <<>>
C7_HasExtension(name) == splitext_ext(name) # <<>>
C7_Chosen(url, h) ==
    IF C7_HeaderFilename(HeaderGet(h, "Content-Disposition", <<>>)) # <<>>
    THEN C7_HeaderFilename(HeaderGet(h, "Content-Disposition", <<>>))
    ELSE IF basename(urlparse_path(url)) # <<>> THEN basename(urlparse_path(url))
    ELSE DOWNLOAD_PDF
C7_GuessedExt(h) ==
    LET g == guess_extension(Strip(SplitFirst(HeaderGet(h, "Content-Type", <<>>), ";")))
    IN  IF g = <<>> THEN DOT_PDF ELSE g

\* C7: pick_filename returns a non-empty name with an extension: the
\* Content-Disposition filename when the header carries one, else the basename
\* of the URL path, else download.pdf, with the extension guessed from
\* Content-Type (or .pdf) appended when that name has none.
C7_NameIsChosenNameWithExtension ==
    fn.pc = "ret" =>
        /\ fn.name # <<>>
        /\ C7_HasExtension(fn.name)
        /\ fn.name = IF C7_HasExtension(C7_Chosen(fn.url, fn.headers))
                     THEN C7_Chosen(fn.url, fn.headers)
                     ELSE C7_Chosen(fn.url, fn.headers) \o C7_GuessedExt(fn.headers)

\* C8: at the end of the run, the key each success outcome names holds the
\* body downloaded from the URL of that outcome.
C8_SuccessKeyHoldsItsOwnBody ==
    mainpc = "returned" =>
        \A i \in DOMAIN task :
            StartsWith(fut[i].msg, OK_TAG) =>
                \E o \in store :
                    /\ fut[i].msg = OkPrefix(urls[i]) \o BUCKET \o <<"/">> \o o.key
                    /\ o.body = urls[i]

C9_NoProbeAfterSuccess(i) ==
    /\ task[i].probe = "connected" => task'[i].probe = "connected"
    /\ (task[i].probe # "connected" /\ task'[i].probe = "connected") =>
           task'[i].pc = "get" /\ ~task'[i].requested
    /\ (~task[i].requested /\ task'[i].requested) => task[i].pc = "get" /\ task[i].probe = "connected"

\* C9: a task that is queued, probing or sleeping has issued no GET and no PUT
\* and has no outcome; a GET is issued only when the task's latest probe
\* returned true, the task goes from that probe straight to the GET, and it
\* never probes again.
C9_GetOnlyAfterSuccessfulProbe ==
    /\ [](\A i \in DOMAIN task :
            /\ task[i].pc \in {"queued", "probe", "sleep"} =>
                 ~task[i].requested /\ task[i].puts = 0 /\ fut[i].state = "pending"
            /\ (task[i].pc \in {"get", "upload"} \/ task[i].requested \/ task[i].puts > 0) =>
                 task[i].probe = "connected")
    /\ [][\A i \in DOMAIN task : i \in DOMAIN task' => C9_NoProbeAfterSuccess(i)]_vars

\* a task that met a failed probe, slept, probed again and has issued its GET
C9_Witness == \E i \in DOMAIN task : task[i].probeErr /\ task[i].requested

\* every task has returned one outcome, main() has collected them all, has
\* written the tally and has returned
C10_Tallied ==
    /\ mainpc = "returned"
    /\ Len(results) = Len(urls)
    /\ \A i \in DOMAIN task : Finished(i) /\ fut[i].state = "returned" /\ collected[i]
    /\ Cardinality(TallyLines) = 1

\* C10: under fair scheduling, once main() starts to submit, every task returns
\* an outcome, main() collects all N outcomes, writes the tally and returns
\* normally, whatever failed; an outcome, once returned, stays as it is, and a
\* task that has started is never put back or dropped.
C10_EveryTaskCompletesAndMainReturns ==
    /\ (mainpc = "submit") ~> C10_Tallied
    /\ [][\A i \in DOMAIN fut :
            /\ fut[i].state = "returned" => fut'[i] = fut[i]
            /\ task[i].pc \notin {"new", "queued"} => task'[i].pc \notin {"new", "queued"}]_vars

\* a run over three URLs has ended normally with every URL failed
C10_Witness ==
    /\ mainpc = "returned"
    /\ Len(urls) = 3
    /\ \A i \in DOMAIN task : ~Succeeded(i)
    /\ \E i \in DOMAIN task : task[i].resp.status = 404

====
